---- MODULE Spec2Model ----
\* Sorted-set command handlers of miniredis (src/cmd_cluster.go, second
\* package section: "Commands from http://redis.io/commands#sorted_set").
\*
\* Strings (keys, members, argument tokens) are sequences of byte values, so
\* that parsing, prefix stripping and Go's bytewise string comparison are
\* computed as the code computes them.  Scores are the integer-valued
\* float64s.
EXTENDS Integers, Sequences, FiniteSets, TLC

VARIABLES
    dbs,          \* m.db(i): database index -> key -> typed value
    selectedDB,   \* ctx.selectedDB of every connection
    dirty,        \* the dirty flag of every connection (setDirty)
    last,         \* the last command handled and what was written to `out`
    lock,         \* holder of the server mutex taken by withTx (0: free)
    pc,           \* concurrent specification: position of each connection
    job,          \* concurrent specification: the command a connection runs
    obs           \* history: the keyspaces as the last whole command left them

vars == <<dbs, selectedDB, dirty, last, lock, pc, job, obs>>

----------------------------------------------------------------------------
\* Bounds of the model.

\* Number of client connections.
NumConns == 2
\* Largest number of score/member pairs in one ZADD of the input set.
MaxPairs == 2
\* Scores written by ZADD lie in -1 .. MaxScore.
MaxScore == 1

Conns == 1 .. NumConns
DBIndexes == {0, 1}

----------------------------------------------------------------------------
\* Byte strings.

Byte == [lparen |-> 40, plus |-> 43, minus |-> 45, zero |-> 48, nine |-> 57,
         upA |-> 65, upZ |-> 90, lbracket |-> 91]

S_empty == <<>>
S_z == <<122>>                      \* "z"
S_s == <<115>>                      \* "s"
S_a == <<97>>                       \* "a"
S_ab == <<97, 98>>                  \* "ab"
S_minus == <<45>>                   \* "-"
S_plus == <<43>>                    \* "+"
S_x == <<120>>                      \* "x"
S_withscores == <<119, 105, 116, 104, 115, 99, 111, 114, 101, 115>>
S_WITHSCORES == <<87, 73, 84, 72, 83, 67, 79, 82, 69, 83>>
S_limit == <<108, 105, 109, 105, 116>>
S_LIMIT == <<76, 73, 77, 73, 84>>

\* Go's s[1:]
Tail1(s) == SubSeq(s, 2, Len(s))

\* Go's string comparison a < b: bytewise lexicographic.
RECURSIVE StrLess(_, _)
StrLess(a, b) ==
    IF Len(b) = 0 THEN FALSE
    ELSE IF Len(a) = 0 THEN TRUE
    ELSE IF a[1] # b[1] THEN a[1] < b[1]
    ELSE StrLess(Tail1(a), Tail1(b))

StrLeq(a, b) == a = b \/ StrLess(a, b)

\* strings.ToLower on ASCII
ToLower(s) ==
    [i \in 1 .. Len(s) |->
        IF s[i] >= Byte.upA /\ s[i] <= Byte.upZ THEN s[i] + 32 ELSE s[i]]

IsDigit(b) == b >= Byte.zero /\ b <= Byte.nine

RECURSIVE DigitsValue(_)
DigitsValue(s) ==
    IF Len(s) = 0 THEN 0
    ELSE 10 * DigitsValue(SubSeq(s, 1, Len(s) - 1)) + (s[Len(s)] - Byte.zero)

\* A decimal integer literal with an optional sign: the tokens of the input
\* sets on which strconv.ParseFloat and strconv.Atoi succeed.
IsIntLiteral(s) ==
    LET body == IF Len(s) > 0 /\ s[1] \in {Byte.minus, Byte.plus}
                THEN Tail1(s) ELSE s
    IN  Len(body) > 0 /\ \A i \in 1 .. Len(body) : IsDigit(body[i])

IntLiteralValue(s) ==
    IF s[1] = Byte.minus THEN 0 - DigitsValue(Tail1(s))
    ELSE IF s[1] = Byte.plus THEN DigitsValue(Tail1(s))
    ELSE DigitsValue(s)

\* strconv.ParseFloat(s, 64): (value, err)
ParseFloat(s) ==
    IF IsIntLiteral(s) THEN [f |-> IntLiteralValue(s), err |-> FALSE]
    ELSE [f |-> 0, err |-> TRUE]

\* strconv.Atoi(s): (value, err)
Atoi(s) ==
    IF IsIntLiteral(s) THEN [n |-> IntLiteralValue(s), err |-> FALSE]
    ELSE [n |-> 0, err |-> TRUE]

RECURSIVE NatDigits(_)
NatDigits(n) ==
    IF n < 10 THEN <<Byte.zero + n>>
    ELSE Append(NatDigits(n \div 10), Byte.zero + (n % 10))

\* formatFloat(score) of an integer-valued score: its decimal form.
formatFloat(f) ==
    IF f < 0 THEN <<Byte.minus>> \o NatDigits(0 - f) ELSE NatDigits(f)

----------------------------------------------------------------------------
\* Keyspace accessor and ordered-set store (db.exists, db.t, db.zadd, ...).
\* A value is [t, ss]: the type tag and, for a "zset", the member -> score map.

NoValue == [t |-> "none", ss |-> <<>>]
StringValue == [t |-> "string", ss |-> <<>>]
ZsetValue(ss) == [t |-> "zset", ss |-> ss]

\* Go's m[k] = v on a map
MapPut(f, k, v) == [x \in (DOMAIN f) \cup {k} |-> IF x = k THEN v ELSE f[x]]
\* Go's delete(m, k)
MapDelete(f, k) == [x \in (DOMAIN f) \ {k} |-> f[x]]

exists(db, key) == db[key].t # "none"
t(db, key) == db[key].t

\* db.zadd(key, score, member): (keyspace after, member was new)
zadd(db, key, score, member) ==
    LET ss == IF exists(db, key) THEN db[key].ss ELSE <<>>
    IN  [db |-> [db EXCEPT ![key] = ZsetValue(MapPut(ss, member, score))],
         isNew |-> member \notin DOMAIN ss]

\* db.zrem(key, member): (keyspace after, member existed); the key is deleted
\* when its last member is removed.
zrem(db, key, member) ==
    LET ss == db[key].ss
        left == MapDelete(ss, member)
    IN  [db |-> [db EXCEPT ![key] =
                    IF DOMAIN left = {} THEN NoValue ELSE ZsetValue(left)],
         existed |-> member \in DOMAIN ss]

zcard(db, key) == Cardinality(DOMAIN db[key].ss)
zexists(db, key, member) == member \in DOMAIN db[key].ss
zscore(db, key, member) == db[key].ss[member]

\* canonical order: score ascending, then member ascending
ElemLess(a, b) ==
    a.score < b.score \/ (a.score = b.score /\ StrLess(a.member, b.member))

RECURSIVE SortElems(_)
SortElems(S) ==
    IF S = {} THEN <<>>
    ELSE LET m == CHOOSE x \in S : \A y \in S \ {x} : ElemLess(x, y)
         IN  <<m>> \o SortElems(S \ {m})

\* db.zelements(key): the (member, score) pairs in canonical order
zelements(db, key) ==
    SortElems({[member |-> m, score |-> db[key].ss[m]] : m \in DOMAIN db[key].ss})

\* db.zmembers(key): the members in canonical order
zmembers(db, key) ==
    LET els == zelements(db, key)
    IN  [i \in 1 .. Len(els) |-> els[i].member]

\* Go's in-place reversal of a slice
Reverse(s) == [i \in 1 .. Len(s) |-> s[Len(s) + 1 - i]]

reverseSlice(o) == Reverse(o)
\* variant: the elements are left in ascending order
reverseElems_noop(o) == o

reverseElems(o) == Reverse(o)

\* db.zrank(key, member, direction): (rank, found), 0-based
zrank(db, key, member, reverse) ==
    LET ms == IF reverse THEN Reverse(zmembers(db, key)) ELSE zmembers(db, key)
    IN  IF \E i \in 1 .. Len(ms) : ms[i] = member
        THEN [rank |-> (CHOOSE i \in 1 .. Len(ms) : ms[i] = member) - 1,
              ok |-> TRUE]
        ELSE [rank |-> 0, ok |-> FALSE]

\* redisRange(l, start, end, false): the slice [rs, re) of a list of length l
redisRange(l, start, end) ==
    LET s0 == IF start < 0 THEN (IF l + start < 0 THEN 0 ELSE l + start) ELSE start
        s1 == IF s0 > l THEN l ELSE s0
        e0 == IF end < 0 THEN (IF l + end < 0 THEN -1 ELSE l + end) ELSE end
        e1 == IF e0 + 1 > l THEN l ELSE e0 + 1
    IN  IF e1 < s1 THEN [rs |-> 0, re |-> 0] ELSE [rs |-> s1, re |-> e1]

\* Go's s[lo:hi] with 0-based half-open bounds
Slice(s, lo, hi) == SubSeq(s, lo + 1, hi)

----------------------------------------------------------------------------
\* Range parsing and range filters.

\* parseFloatRange(s): (f, inclusive, err)
parseFloatRange(s) ==
    IF Len(s) = 0 THEN [f |-> 0, incl |-> FALSE, err |-> FALSE]
    ELSE LET excl == s[1] = Byte.lparen
             p == ParseFloat(IF excl THEN Tail1(s) ELSE s)
         IN  [f |-> p.f, incl |-> ~excl, err |-> p.err]

\* parseLexrange(s): (range, inclusive, err)
parseLexrange(s) ==
    IF Len(s) = 0 THEN [s |-> S_empty, incl |-> FALSE, err |-> TRUE]
    ELSE IF s = S_plus \/ s = S_minus THEN [s |-> s, incl |-> FALSE, err |-> FALSE]
    ELSE IF s[1] = Byte.lparen THEN [s |-> Tail1(s), incl |-> FALSE, err |-> FALSE]
    ELSE IF s[1] = Byte.lbracket THEN [s |-> Tail1(s), incl |-> TRUE, err |-> FALSE]
    ELSE [s |-> S_empty, incl |-> FALSE, err |-> TRUE]

\* `for i, m := range members { if hit(m) { ...; break } }`, given hit(m) for
\* every element: the 1-based index at which the loop breaks, 0 when it runs
\* to the end.
FirstIndex(hits) ==
    IF \E i \in 1 .. Len(hits) : hits[i]
    THEN CHOOSE i \in 1 .. Len(hits) : hits[i] /\ \A k \in 1 .. i - 1 : ~hits[k]
    ELSE 0

\* members = members[i:] at the break, untouched otherwise
CutBefore(members, i) ==
    IF i = 0 THEN members ELSE SubSeq(members, i, Len(members))
\* members = members[:i] at the break, untouched otherwise
CutFrom(members, i) ==
    IF i = 0 THEN members ELSE SubSeq(members, 1, i - 1)

withSSRange(members, min, minIncl, max, maxIncl) ==
    LET afterMin ==
            IF minIncl
            THEN CutBefore(members, FirstIndex([i \in 1 .. Len(members) |-> members[i].score >= min]))
            ELSE CutBefore(members, FirstIndex([i \in 1 .. Len(members) |-> members[i].score > min]))
    IN  IF maxIncl
        THEN CutFrom(afterMin, FirstIndex([i \in 1 .. Len(afterMin) |-> afterMin[i].score > max]))
        ELSE CutFrom(afterMin, FirstIndex([i \in 1 .. Len(afterMin) |-> afterMin[i].score >= max]))

\* variant: no short-circuit, "+" and "-" scanned like concrete bounds
withLexRange_noShortCircuit(members, min, minIncl, max, maxIncl) ==
    LET afterMin ==
            IF minIncl
            THEN CutBefore(members, FirstIndex([i \in 1 .. Len(members) |-> StrLeq(min, members[i])]))
            ELSE CutBefore(members, FirstIndex([i \in 1 .. Len(members) |-> StrLess(min, members[i])]))
    IN  IF maxIncl
        THEN CutFrom(afterMin, FirstIndex([i \in 1 .. Len(afterMin) |-> StrLess(max, afterMin[i])]))
        ELSE CutFrom(afterMin, FirstIndex([i \in 1 .. Len(afterMin) |-> StrLeq(max, afterMin[i])]))

withLexRange(members, min, minIncl, max, maxIncl) ==
    IF max = S_minus \/ min = S_plus THEN <<>>
    ELSE LET afterMin ==
                 IF min = S_minus THEN members
                 ELSE IF minIncl
                 THEN CutBefore(members, FirstIndex([i \in 1 .. Len(members) |-> StrLeq(min, members[i])]))
                 ELSE CutBefore(members, FirstIndex([i \in 1 .. Len(members) |-> StrLess(min, members[i])]))
         IN  IF max = S_plus THEN afterMin
             ELSE IF maxIncl
             THEN CutFrom(afterMin, FirstIndex([i \in 1 .. Len(afterMin) |-> StrLess(max, afterMin[i])]))
             ELSE CutFrom(afterMin, FirstIndex([i \in 1 .. Len(afterMin) |-> StrLeq(max, afterMin[i])]))

\* sort.Strings(members)
RECURSIVE SortStrings(_)
SortStrings(S) ==
    IF S = {} THEN <<>>
    ELSE LET m == CHOOSE x \in S : \A y \in S \ {x} : StrLess(x, y)
         IN  <<m>> \o SortStrings(S \ {m})

\* variant: the second LIMIT number read as an end index, as in ZRANGE
applyLimit_endIndex(members, withLimit, limitStart, limitEnd) ==
    IF ~withLimit THEN members
    ELSE IF limitStart < 0 \/ limitStart >= Len(members) THEN <<>>
    ELSE IF limitEnd < 0 \/ limitEnd > Len(members)
         THEN SubSeq(members, limitStart + 1, Len(members))
    ELSE SubSeq(members, limitStart + 1, limitEnd)

\* "Apply LIMIT ranges. That's <start> <elements>."
applyLimit(members, withLimit, limitStart, limitEnd) ==
    IF ~withLimit THEN members
    ELSE IF limitStart < 0 THEN <<>>
    ELSE LET dropped == IF limitStart < Len(members)
                        THEN SubSeq(members, limitStart + 1, Len(members))
                        ELSE <<>>
         IN  IF limitEnd >= 0 /\ Len(dropped) > limitEnd
             THEN SubSeq(dropped, 1, limitEnd)
             ELSE dropped

----------------------------------------------------------------------------
\* Replies written to `out`, and what a handler did.

Reply(kind, n, arr, err) == [kind |-> kind, int |-> n, arr |-> arr, err |-> err]
WriteInt(n) == Reply("int", n, <<>>, "")
WriteZero == WriteInt(0)
WriteNil == Reply("nil", 0, <<>>, "")
WriteString(s) == Reply("string", 0, <<s>>, "")
\* WriteBulkLen(n) followed by one WriteString per item
WriteBulk(n, items) == Reply("array", n, items, "")
WriteErrorString(msg) == Reply("error", 0, <<>>, msg)

ErrWrongType == "ErrWrongType"
msgSyntaxError == "msgSyntaxError"
msgInvalidInt == "msgInvalidInt"
msgInvalidMinMax == "msgInvalidMinMax"
msgInvalidRangeItem == "msgInvalidRangeItem"
msgNotFloat == "ERR value is not a valid float"
msgWrongArgs == "ERR wrong number of arguments"

\* setDirty(r.Client()); out.WriteErrorString(msg); return nil
DirtyError(db, msg) ==
    [reply |-> WriteErrorString(msg), setDirty |-> TRUE, entered |-> FALSE, db |-> db]
\* out.WriteErrorString(msg); return nil
PlainError(db, msg) ==
    [reply |-> WriteErrorString(msg), setDirty |-> FALSE, entered |-> FALSE, db |-> db]
\* return withTx(m, out, r, closure): the closure runs under the server lock
withTx(closure) ==
    [reply |-> closure.reply, setDirty |-> FALSE, entered |-> TRUE, db |-> closure.db]

\* what a closure leaves: the reply it wrote and the keyspace
Done(reply, db) == [reply |-> reply, db |-> db]

----------------------------------------------------------------------------
\* ZADD

\* variant: a member already in elems keeps the score of its first pair
RECURSIVE zaddElems_firstWins(_, _)
zaddElems_firstWins(args, elems) ==
    IF Len(args) = 0 THEN [err |-> FALSE, elems |-> elems]
    ELSE LET p == ParseFloat(args[1])
         IN  IF p.err THEN [err |-> TRUE, elems |-> elems]
             ELSE zaddElems_firstWins(SubSeq(args, 3, Len(args)),
                                      IF args[2] \in DOMAIN elems THEN elems
                                      ELSE MapPut(elems, args[2], p.f))

\* the loop filling elems := map[string]float64{} from the score/member tokens
RECURSIVE zaddElems(_, _)
zaddElems(args, elems) ==
    IF Len(args) = 0 THEN [err |-> FALSE, elems |-> elems]
    ELSE LET p == ParseFloat(args[1])
         IN  IF p.err THEN [err |-> TRUE, elems |-> elems]
             ELSE zaddElems(SubSeq(args, 3, Len(args)), MapPut(elems, args[2], p.f))

\* for member, score := range elems { if db.zadd(...) { added++ } }
\* variant: added++ for every pair, new member or not
RECURSIVE zaddLoop_countsEvery(_, _, _, _)
zaddLoop_countsEvery(db, key, elems, added) ==
    IF DOMAIN elems = {} THEN [db |-> db, added |-> added]
    ELSE LET member == CHOOSE m \in DOMAIN elems : TRUE
             r == zadd(db, key, elems[member], member)
         IN  zaddLoop_countsEvery(r.db, key, MapDelete(elems, member), added + 1)

RECURSIVE zaddLoop(_, _, _, _)
zaddLoop(db, key, elems, added) ==
    IF DOMAIN elems = {} THEN [db |-> db, added |-> added]
    ELSE LET member == CHOOSE m \in DOMAIN elems : TRUE
             r == zadd(db, key, elems[member], member)
         IN  zaddLoop(r.db, key, MapDelete(elems, member),
                      IF r.isNew THEN added + 1 ELSE added)

zaddClosure(db, key, elems) ==
    IF exists(db, key) /\ t(db, key) # "zset"
    THEN Done(WriteErrorString(ErrWrongType), db)
    ELSE LET r == zaddLoop(db, key, elems, 0)
         IN  Done(WriteInt(r.added), r.db)

\* variant: the pairs parsed before a bad score token are applied
cmdZadd_appliesParsedPairs(db, args) ==
    IF Len(args) < 3 THEN DirtyError(db, msgWrongArgs)
    ELSE IF (Len(args) - 1) % 2 # 0 THEN DirtyError(db, msgSyntaxError)
    ELSE LET e == zaddElems(Tail1(args), <<>>)
         IN  IF e.err
             THEN DirtyError(zaddClosure(db, args[1], e.elems).db, msgNotFloat)
             ELSE withTx(zaddClosure(db, args[1], e.elems))

cmdZadd(db, args) ==
    IF Len(args) < 3 THEN DirtyError(db, msgWrongArgs)
    ELSE IF (Len(args) - 1) % 2 # 0 THEN DirtyError(db, msgSyntaxError)
    ELSE LET e == zaddElems(Tail1(args), <<>>)
         IN  IF e.err THEN DirtyError(db, msgNotFloat)
             ELSE withTx(zaddClosure(db, args[1], e.elems))

----------------------------------------------------------------------------
\* ZCARD

zcardClosure(db, key) ==
    IF ~exists(db, key) THEN Done(WriteZero, db)
    ELSE IF t(db, key) # "zset" THEN Done(WriteErrorString(ErrWrongType), db)
    ELSE Done(WriteInt(zcard(db, key)), db)

\* variant: the wrong-type error of the closure also marks the connection
cmdZcard_dirtyOnTypeError(db, args) ==
    IF Len(args) # 1 THEN DirtyError(db, msgWrongArgs)
    ELSE [withTx(zcardClosure(db, args[1])) EXCEPT
            !.setDirty = zcardClosure(db, args[1]).reply.kind = "error"]

cmdZcard(db, args) ==
    IF Len(args) # 1 THEN DirtyError(db, msgWrongArgs)
    ELSE withTx(zcardClosure(db, args[1]))

----------------------------------------------------------------------------
\* ZCOUNT

\* variant: every member of the set is counted
zcountClosure_countsAll(db, key, min, minIncl, max, maxIncl) ==
    IF ~exists(db, key) THEN Done(WriteZero, db)
    ELSE IF t(db, key) # "zset" THEN Done(WriteErrorString(ErrWrongType), db)
    ELSE Done(WriteInt(zcard(db, key)), db)

zcountClosure(db, key, min, minIncl, max, maxIncl) ==
    IF ~exists(db, key) THEN Done(WriteZero, db)
    ELSE IF t(db, key) # "zset" THEN Done(WriteErrorString(ErrWrongType), db)
    ELSE Done(WriteInt(Len(withSSRange(zelements(db, key), min, minIncl, max, maxIncl))),
              db)

cmdZcount(db, args) ==
    IF Len(args) # 3 THEN DirtyError(db, msgWrongArgs)
    ELSE LET mn == parseFloatRange(args[2])
             mx == parseFloatRange(args[3])
         IN  IF mn.err THEN DirtyError(db, msgInvalidMinMax)
             ELSE IF mx.err THEN DirtyError(db, msgInvalidMinMax)
             ELSE withTx(zcountClosure(db, args[1], mn.f, mn.incl, mx.f, mx.incl))

----------------------------------------------------------------------------
\* ZRANGE and ZREVRANGE

\* variant: the score is written before its member
zrangeItems_scoreFirst(db, key, members, withScores) ==
    IF withScores
    THEN [i \in 1 .. 2 * Len(members) |->
            IF i % 2 = 0 THEN members[i \div 2]
            ELSE formatFloat(zscore(db, key, members[(i + 1) \div 2]))]
    ELSE members

\* for _, el := range members { WriteString(el); if withScores { WriteString(score) } }
zrangeItems(db, key, members, withScores) ==
    IF withScores
    THEN [i \in 1 .. 2 * Len(members) |->
            IF i % 2 = 1 THEN members[(i + 1) \div 2]
            ELSE formatFloat(zscore(db, key, members[i \div 2]))]
    ELSE members

\* variant: the members are reversed for ZRANGE and kept for ZREVRANGE
zrangeClosure_flippedReverse(db, key, reverse, start, end, withScores) ==
    IF ~exists(db, key) THEN Done(WriteBulk(0, <<>>), db)
    ELSE IF t(db, key) # "zset" THEN Done(WriteErrorString(ErrWrongType), db)
    ELSE LET ms == IF ~reverse THEN reverseSlice(zmembers(db, key))
                   ELSE zmembers(db, key)
             r == redisRange(Len(ms), start, end)
             n == IF withScores THEN (r.re - r.rs) * 2 ELSE r.re - r.rs
         IN  Done(WriteBulk(n, zrangeItems(db, key, Slice(ms, r.rs, r.re), withScores)),
                  db)

zrangeClosure(db, key, reverse, start, end, withScores) ==
    IF ~exists(db, key) THEN Done(WriteBulk(0, <<>>), db)
    ELSE IF t(db, key) # "zset" THEN Done(WriteErrorString(ErrWrongType), db)
    ELSE LET ms == IF reverse THEN reverseSlice(zmembers(db, key))
                   ELSE zmembers(db, key)
             r == redisRange(Len(ms), start, end)
             n == IF withScores THEN (r.re - r.rs) * 2 ELSE r.re - r.rs
         IN  Done(WriteBulk(n, zrangeItems(db, key, Slice(ms, r.rs, r.re), withScores)),
                  db)

makeCmdZrange(reverse, db, args) ==
    IF Len(args) < 3 THEN DirtyError(db, msgWrongArgs)
    ELSE LET start == Atoi(args[2])
             end == Atoi(args[3])
         IN  IF start.err THEN DirtyError(db, msgInvalidInt)
             ELSE IF end.err THEN DirtyError(db, msgInvalidInt)
             ELSE IF Len(args) > 4 THEN PlainError(db, msgSyntaxError)
             ELSE IF Len(args) = 4 /\ ToLower(args[4]) # S_withscores
             THEN DirtyError(db, msgSyntaxError)
             ELSE withTx(zrangeClosure(db, args[1], reverse, start.n, end.n,
                                       Len(args) = 4))

----------------------------------------------------------------------------
\* ZRANGEBYLEX

NoOptions == [withScores |-> FALSE, withLimit |-> FALSE, limitStart |-> 0, limitEnd |-> 0]
OptionsOk(o) == [status |-> "ok", msg |-> "", o |-> o]
OptionsDirtyError(msg) == [status |-> "dirty", msg |-> msg, o |-> NoOptions]
OptionsPlainError(msg) == [status |-> "plain", msg |-> msg, o |-> NoOptions]

\* the `for len(args) > 0` loop over the trailing options of ZRANGEBYLEX
RECURSIVE lexOptions(_, _)
lexOptions(args, o) ==
    IF Len(args) = 0 THEN OptionsOk(o)
    ELSE IF ToLower(args[1]) = S_limit
    THEN LET rest == Tail1(args)
         IN  IF Len(rest) < 2 THEN OptionsPlainError(msgSyntaxError)
             ELSE IF Atoi(rest[1]).err THEN OptionsDirtyError(msgInvalidInt)
             ELSE IF Atoi(rest[2]).err THEN OptionsDirtyError(msgInvalidInt)
             ELSE lexOptions(SubSeq(rest, 3, Len(rest)),
                             [o EXCEPT !.withLimit = TRUE,
                                       !.limitStart = Atoi(rest[1]).n,
                                       !.limitEnd = Atoi(rest[2]).n])
    ELSE OptionsDirtyError(msgSyntaxError)

zrangebylexClosure(db, key, min, minIncl, max, maxIncl, o) ==
    IF ~exists(db, key) THEN Done(WriteBulk(0, <<>>), db)
    ELSE IF t(db, key) # "zset" THEN Done(WriteErrorString(ErrWrongType), db)
    ELSE LET ms == zmembers(db, key)
             sorted == SortStrings({ms[i] : i \in 1 .. Len(ms)})
             ranged == withLexRange(sorted, min, minIncl, max, maxIncl)
             limited == applyLimit(ranged, o.withLimit, o.limitStart, o.limitEnd)
         IN  Done(WriteBulk(Len(limited), limited), db)

cmdZrangebylex(db, args) ==
    IF Len(args) < 3 THEN DirtyError(db, msgWrongArgs)
    ELSE LET mn == parseLexrange(args[2])
             mx == parseLexrange(args[3])
             opts == lexOptions(SubSeq(args, 4, Len(args)), NoOptions)
         IN  IF mn.err THEN DirtyError(db, msgInvalidRangeItem)
             ELSE IF mx.err THEN DirtyError(db, msgInvalidRangeItem)
             ELSE IF opts.status = "plain" THEN PlainError(db, opts.msg)
             ELSE IF opts.status = "dirty" THEN DirtyError(db, opts.msg)
             ELSE withTx(zrangebylexClosure(db, args[1], mn.s, mn.incl, mx.s, mx.incl,
                                            opts.o))

----------------------------------------------------------------------------
\* ZRANGEBYSCORE and ZREVRANGEBYSCORE

\* the `for len(args) > 0` loop over the trailing options of ZRANGEBYSCORE
RECURSIVE scoreOptions(_, _)
scoreOptions(args, o) ==
    IF Len(args) = 0 THEN OptionsOk(o)
    ELSE IF ToLower(args[1]) = S_limit
    THEN LET rest == Tail1(args)
         IN  IF Len(rest) < 2 THEN OptionsPlainError(msgSyntaxError)
             ELSE IF Atoi(rest[1]).err THEN OptionsDirtyError(msgInvalidInt)
             ELSE IF Atoi(rest[2]).err THEN OptionsDirtyError(msgInvalidInt)
             ELSE scoreOptions(SubSeq(rest, 3, Len(rest)),
                               [o EXCEPT !.withLimit = TRUE,
                                         !.limitStart = Atoi(rest[1]).n,
                                         !.limitEnd = Atoi(rest[2]).n])
    ELSE IF ToLower(args[1]) = S_withscores
    THEN scoreOptions(Tail1(args), [o EXCEPT !.withScores = TRUE])
    ELSE OptionsDirtyError(msgSyntaxError)

\* for _, el := range members { WriteString(el.member); if withScores { ... } }
zrangebyscoreItems(members, withScores) ==
    IF withScores
    THEN [i \in 1 .. 2 * Len(members) |->
            IF i % 2 = 1 THEN members[(i + 1) \div 2].member
            ELSE formatFloat(members[i \div 2].score)]
    ELSE [i \in 1 .. Len(members) |-> members[i].member]

zrangebyscoreClosure(db, key, reverse, min, minIncl, max, maxIncl, o) ==
    IF ~exists(db, key) THEN Done(WriteBulk(0, <<>>), db)
    ELSE IF t(db, key) # "zset" THEN Done(WriteErrorString(ErrWrongType), db)
    ELSE LET els == zelements(db, key)
             ranged == IF reverse
                       THEN reverseElems(withSSRange(els, max, maxIncl, min, minIncl))
                       ELSE withSSRange(els, min, minIncl, max, maxIncl)
             limited == applyLimit(ranged, o.withLimit, o.limitStart, o.limitEnd)
             n == IF o.withScores THEN Len(limited) * 2 ELSE Len(limited)
         IN  Done(WriteBulk(n, zrangebyscoreItems(limited, o.withScores)), db)

makeCmdZrangebyscore(reverse, db, args) ==
    IF Len(args) < 3 THEN DirtyError(db, msgWrongArgs)
    ELSE LET mn == parseFloatRange(args[2])
             mx == parseFloatRange(args[3])
             opts == scoreOptions(SubSeq(args, 4, Len(args)), NoOptions)
         IN  IF mn.err THEN DirtyError(db, msgInvalidMinMax)
             ELSE IF mx.err THEN DirtyError(db, msgInvalidMinMax)
             ELSE IF opts.status = "plain" THEN PlainError(db, opts.msg)
             ELSE IF opts.status = "dirty" THEN DirtyError(db, opts.msg)
             ELSE withTx(zrangebyscoreClosure(db, args[1], reverse, mn.f, mn.incl,
                                              mx.f, mx.incl, opts.o))

----------------------------------------------------------------------------
\* ZRANK and ZREVRANK

\* variant: the direction is not passed on, the rank is always ascending
zrankClosure_ascendingOnly(db, key, reverse, member) ==
    IF ~exists(db, key) THEN Done(WriteNil, db)
    ELSE IF t(db, key) # "zset" THEN Done(WriteErrorString(ErrWrongType), db)
    ELSE LET r == zrank(db, key, member, FALSE)
         IN  IF ~r.ok THEN Done(WriteNil, db) ELSE Done(WriteInt(r.rank), db)

zrankClosure(db, key, reverse, member) ==
    IF ~exists(db, key) THEN Done(WriteNil, db)
    ELSE IF t(db, key) # "zset" THEN Done(WriteErrorString(ErrWrongType), db)
    ELSE LET r == zrank(db, key, member, reverse)
         IN  IF ~r.ok THEN Done(WriteNil, db) ELSE Done(WriteInt(r.rank), db)

makeCmdZrank(reverse, db, args) ==
    IF Len(args) # 2 THEN DirtyError(db, msgWrongArgs)
    ELSE withTx(zrankClosure(db, args[1], reverse, args[2]))

----------------------------------------------------------------------------
\* ZREM

\* variant: the loop stops after the first member
zremLoop_firstOnly(db, key, members, deleted) ==
    IF Len(members) = 0 THEN [db |-> db, deleted |-> deleted]
    ELSE LET r == zrem(db, key, members[1])
         IN  [db |-> r.db, deleted |-> IF r.existed THEN deleted + 1 ELSE deleted]

\* for _, member := range members { if db.zrem(key, member) { deleted++ } }
RECURSIVE zremLoop(_, _, _, _)
zremLoop(db, key, members, deleted) ==
    IF Len(members) = 0 THEN [db |-> db, deleted |-> deleted]
    ELSE LET r == zrem(db, key, members[1])
         IN  zremLoop(r.db, key, Tail1(members),
                      IF r.existed THEN deleted + 1 ELSE deleted)

\* variant: the type is checked before the existence
zremClosure_typeFirst(db, key, members) ==
    IF t(db, key) # "zset" THEN Done(WriteErrorString(ErrWrongType), db)
    ELSE IF ~exists(db, key) THEN Done(WriteZero, db)
    ELSE LET r == zremLoop(db, key, members, 0)
         IN  Done(WriteInt(r.deleted), r.db)

zremClosure(db, key, members) ==
    IF ~exists(db, key) THEN Done(WriteZero, db)
    ELSE IF t(db, key) # "zset" THEN Done(WriteErrorString(ErrWrongType), db)
    ELSE LET r == zremLoop(db, key, members, 0)
         IN  Done(WriteInt(r.deleted), r.db)

cmdZrem(db, args) ==
    IF Len(args) < 2 THEN DirtyError(db, msgWrongArgs)
    ELSE withTx(zremClosure(db, args[1], Tail1(args)))

----------------------------------------------------------------------------
\* ZSCORE

zscoreClosure(db, key, member) ==
    IF ~exists(db, key) THEN Done(WriteNil, db)
    ELSE IF t(db, key) # "zset" THEN Done(WriteErrorString(ErrWrongType), db)
    ELSE IF ~zexists(db, key, member) THEN Done(WriteNil, db)
    ELSE Done(WriteString(formatFloat(zscore(db, key, member))), db)

cmdZscore(db, args) ==
    IF Len(args) # 2 THEN DirtyError(db, msgWrongArgs)
    ELSE withTx(zscoreClosure(db, args[1], args[2]))

----------------------------------------------------------------------------
\* Input sets: the argument lists (r.Args) the connections send.

Keys == {S_z, S_s}
Members == {S_minus, S_a, S_ab}
Scores == -1 .. MaxScore
\* largest start/stop/offset/count written in a rank window or a LIMIT
MaxIndex == 3

ScoreToks == {formatFloat(n) : n \in Scores}
\* a score bound: absent, unparsable, or a score, inclusive or "(" exclusive
RangeToks ==
    {S_empty, S_x} \cup ScoreToks
    \cup {<<Byte.lparen>> \o formatFloat(n) : n \in -1 .. 0}
IndexToks == {formatFloat(n) : n \in (0 - MaxIndex) .. MaxIndex}
LimitToks == {formatFloat(n) : n \in -1 .. 2}
LexBounds == {S_minus, S_a, S_plus}
\* a lexicographic bound: "+", "-", "[bound", "(bound", or malformed
LexToks == {S_plus, S_minus, S_empty, S_a}
           \cup {<<Byte.lbracket>> \o b : b \in LexBounds}
           \cup {<<Byte.lparen>> \o b : b \in LexBounds}

\* score tokens of the i-th pair of a multi-pair ZADD
PairScoreTok(i) == IF i % 2 = 1 THEN formatFloat(1) ELSE formatFloat(0)
\* n score/member pairs, the pair at position bad (if any) with an unparsable score
PairList(ms, bad) ==
    [i \in 1 .. 2 * Len(ms) |->
        IF i % 2 = 0 THEN ms[i \div 2]
        ELSE IF (i + 1) \div 2 = bad THEN S_x
        ELSE PairScoreTok((i + 1) \div 2)]
MemberSeqs(n) == [1 .. n -> Members]

ZaddArgs ==
    {<<k, st, m>> : k \in Keys, st \in ScoreToks \cup {S_x}, m \in Members}
    \cup UNION {{<<S_z>> \o PairList(ms, bad) : bad \in {0, Len(ms)}} :
                    ms \in UNION {MemberSeqs(n) : n \in 2 .. MaxPairs}}
    \cup {<<S_z, formatFloat(1), m, formatFloat(0)>> : m \in Members}
    \cup {<<k>> : k \in Keys} \cup {<<k, formatFloat(1)>> : k \in Keys}

ZcardArgs == {<<k>> : k \in Keys} \cup {<<>>, <<S_z, S_z>>}

ZcountArgs ==
    {<<S_z, mn, mx>> : mn \in RangeToks, mx \in RangeToks}
    \cup {<<S_s, formatFloat(0), formatFloat(1)>>, <<S_z>>, <<S_z, formatFloat(0)>>,
          <<S_z, formatFloat(0), formatFloat(1), formatFloat(1)>>}

\* stop tokens paired with every start token
StopToks ==
    {formatFloat(n) : n \in {0 - MaxIndex, -2, -1, 0, 1, MaxIndex}} \cup {S_x}

ZrangeArgs ==
    {<<S_z, a, b>> : a \in IndexToks \cup {S_x}, b \in StopToks}
    \cup {<<S_z, a, b, S_withscores>> :
            a \in {formatFloat(0), formatFloat(1)}, b \in StopToks \ {S_x}}
    \cup {<<k, formatFloat(0), formatFloat(-1)>> \o opt :
            k \in Keys,
            opt \in {<<>>, <<S_WITHSCORES>>, <<S_x>>, <<S_withscores, S_withscores>>,
                     <<S_withscores, S_x>>}}
    \cup {<<S_z>>, <<S_z, formatFloat(0)>>}

\* trailing option lists of the by-score and by-lex range commands
LimitOptions ==
    {<<S_limit, a, b>> : a \in LimitToks, b \in LimitToks}
    \cup {<<S_LIMIT, formatFloat(1), formatFloat(1)>>,
          <<S_limit>>, <<S_limit, formatFloat(1)>>,
          <<S_limit, S_x, formatFloat(1)>>, <<S_limit, formatFloat(1), S_x>>,
          <<S_x>>, <<S_limit, formatFloat(0), formatFloat(1), S_x>>}
ScoreOptions ==
    LimitOptions
    \cup {<<S_withscores>>, <<S_WITHSCORES>>,
          <<S_withscores, S_limit, formatFloat(1), formatFloat(1)>>,
          <<S_limit, formatFloat(0), formatFloat(2), S_withscores>>,
          <<S_withscores, S_limit>>}

ZrangebylexArgs ==
    {<<S_z, mn, mx>> : mn \in LexToks, mx \in LexToks}
    \cup {<<S_z, mn, mx>> \o opt :
            mn \in {S_minus, <<Byte.lbracket>> \o S_a},
            mx \in {S_plus},
            opt \in LimitOptions}
    \cup {<<S_s, S_minus, S_plus>>, <<S_z>>, <<S_z, S_minus>>}

ZrangebyscoreArgs ==
    {<<S_z, mn, mx>> : mn \in RangeToks, mx \in RangeToks}
    \cup {<<S_z, mn, mx>> \o opt :
            mn \in {formatFloat(-1)},
            mx \in {formatFloat(MaxScore)},
            opt \in ScoreOptions}
    \cup {<<S_z, formatFloat(MaxScore), formatFloat(-1)>> \o opt :
            opt \in {<<S_withscores>>} \cup {<<S_limit, a, b>> : a \in LimitToks,
                                                                b \in LimitToks}}
    \cup {<<S_s, formatFloat(0), formatFloat(1)>>, <<S_z>>, <<S_z, formatFloat(0)>>}

ZrankArgs ==
    {<<k, m>> : k \in Keys, m \in Members \cup {S_x}}
    \cup {<<S_z>>, <<S_z, S_a, S_a>>}

ZremArgs ==
    {<<k, m>> : k \in Keys, m \in Members \cup {S_x}}
    \cup {<<S_z, m1, m2>> : m1 \in Members, m2 \in Members}
    \cup {<<S_z>>, <<>>}

ZscoreArgs ==
    {<<k, m>> : k \in Keys, m \in Members \cup {S_x}}
    \cup {<<S_z>>, <<S_z, S_a, S_a>>}

----------------------------------------------------------------------------
\* The server: every connection sends one command at a time; the handler runs
\* to completion (argument checks, then the closure under withTx) and the
\* reply is flushed to the client before the next command is read.

NoReply == Reply("none", 0, <<>>, "")
Idle == [conn |-> 0, verb |-> "", args |-> <<>>, reply |-> NoReply,
         entered |-> FALSE, setDirty |-> FALSE, wasDirty |-> <<>>, pre |-> <<>>]

\* Key "s" holds a plain string (written by a string command, outside this
\* file); every other key is absent.  ctx.selectedDB starts at 0.
InitDB(i) == [k \in Keys |-> IF i = 0 /\ k = S_s THEN StringValue ELSE NoValue]

Init ==
    /\ dbs = [i \in DBIndexes |-> InitDB(i)]
    /\ selectedDB = [c \in Conns |-> 0]
    /\ dirty = [c \in Conns |-> FALSE]
    /\ last = Idle
    /\ lock = 0
    /\ pc = [c \in Conns |-> "idle"]
    /\ job = [c \in Conns |-> <<>>]
    /\ obs = [i \in DBIndexes |-> InitDB(i)]

\* db := m.db(ctx.selectedDB)
DB(c) == dbs[selectedDB[c]]

\* connection c's command `verb args` is handled with outcome r
Handle(c, verb, args, r) ==
    /\ dbs' = [dbs EXCEPT ![selectedDB[c]] = r.db]
    /\ dirty' = [dirty EXCEPT ![c] = dirty[c] \/ r.setDirty]
    /\ last' = [conn |-> c, verb |-> verb, args |-> args, reply |-> r.reply,
                entered |-> r.entered, setDirty |-> r.setDirty,
                wasDirty |-> dirty, pre |-> DB(c)]
    /\ UNCHANGED <<selectedDB, lock, pc, job, obs>>

\* the server is ready to read a command
Ready == last = Idle

ZADD ==
    /\ Ready
    /\ \E c \in Conns, args \in ZaddArgs :
          Handle(c, "ZADD", args, cmdZadd(DB(c), args))
ZCARD ==
    /\ Ready
    /\ \E c \in Conns, args \in ZcardArgs :
          Handle(c, "ZCARD", args, cmdZcard(DB(c), args))
ZCOUNT ==
    /\ Ready
    /\ \E c \in Conns, args \in ZcountArgs :
          Handle(c, "ZCOUNT", args, cmdZcount(DB(c), args))
ZRANGE ==
    /\ Ready
    /\ \E c \in Conns, args \in ZrangeArgs :
          Handle(c, "ZRANGE", args, makeCmdZrange(FALSE, DB(c), args))
ZREVRANGE ==
    /\ Ready
    /\ \E c \in Conns, args \in ZrangeArgs :
          Handle(c, "ZREVRANGE", args, makeCmdZrange(TRUE, DB(c), args))
ZRANGEBYLEX ==
    /\ Ready
    /\ \E c \in Conns, args \in ZrangebylexArgs :
          Handle(c, "ZRANGEBYLEX", args, cmdZrangebylex(DB(c), args))
ZRANGEBYSCORE ==
    /\ Ready
    /\ \E c \in Conns, args \in ZrangebyscoreArgs :
          Handle(c, "ZRANGEBYSCORE", args, makeCmdZrangebyscore(FALSE, DB(c), args))
ZREVRANGEBYSCORE ==
    /\ Ready
    /\ \E c \in Conns, args \in ZrangebyscoreArgs :
          Handle(c, "ZREVRANGEBYSCORE", args, makeCmdZrangebyscore(TRUE, DB(c), args))
ZRANK ==
    /\ Ready
    /\ \E c \in Conns, args \in ZrankArgs :
          Handle(c, "ZRANK", args, makeCmdZrank(FALSE, DB(c), args))
ZREVRANK ==
    /\ Ready
    /\ \E c \in Conns, args \in ZrankArgs :
          Handle(c, "ZREVRANK", args, makeCmdZrank(TRUE, DB(c), args))
ZREM ==
    /\ Ready
    /\ \E c \in Conns, args \in ZremArgs :
          Handle(c, "ZREM", args, cmdZrem(DB(c), args))
ZSCORE ==
    /\ Ready
    /\ \E c \in Conns, args \in ZscoreArgs :
          Handle(c, "ZSCORE", args, cmdZscore(DB(c), args))

\* the reply has been sent; the server reads the next command
Flush ==
    /\ last # Idle
    /\ last' = Idle
    /\ UNCHANGED <<dbs, selectedDB, dirty, lock, pc, job, obs>>

Next ==
    \/ ZADD \/ ZCARD \/ ZCOUNT \/ ZRANGE \/ ZREVRANGE \/ ZRANGEBYLEX
    \/ ZRANGEBYSCORE \/ ZREVRANGEBYSCORE \/ ZRANK \/ ZREVRANK \/ ZREM \/ ZSCORE
    \/ Flush

Spec == Init /\ [][Next]_vars

----------------------------------------------------------------------------
\* Properties of the command handlers (specification Spec).

\* the last command was well-formed and its closure ran
Ran(verb) == last.verb = verb /\ last.entered
LastKey == last.args[1]
\* the ordered set the last command found under its key ({} when none)
PreSet == last.pre[LastKey].ss
PreIsZset == last.pre[LastKey].t = "zset"
\* the keyspace of the last command's database, after the command
PostDB == dbs[selectedDB[last.conn]]
SeqSet(s) == {s[i] : i \in 1 .. Len(s)}
NoDuplicates(s) == \A i, j \in 1 .. Len(s) : i # j => s[i] # s[j]

\* a score bound token as written: "(" makes it exclusive
BoundIsExclusive(tok) == tok[1] = Byte.lparen
BoundValue(tok) == IntLiteralValue(IF BoundIsExclusive(tok) THEN Tail1(tok) ELSE tok)
AboveMin(score, tok) ==
    IF BoundIsExclusive(tok) THEN score > BoundValue(tok) ELSE score >= BoundValue(tok)
BelowMax(score, tok) ==
    IF BoundIsExclusive(tok) THEN score < BoundValue(tok) ELSE score <= BoundValue(tok)
\* the members of the set found whose score lies within [mn, mx]
WithinScoreRange(mn, mx) ==
    {m \in DOMAIN PreSet : AboveMin(PreSet[m], mn) /\ BelowMax(PreSet[m], mx)}
ExplicitBounds ==
    Len(last.args) = 3 /\ last.args[2] # S_empty /\ last.args[3] # S_empty

\* C1: ZRANGEBYSCORE without LIMIT returns exactly the members whose score lies
\* within the range per the inclusivity flags (none outside it, none missing),
\* and ZCOUNT counts exactly those members.
C1_ScoreRangeExact ==
    /\ (Ran("ZRANGEBYSCORE") /\ PreIsZset /\ ExplicitBounds) =>
          /\ SeqSet(last.reply.arr) = WithinScoreRange(last.args[2], last.args[3])
          /\ NoDuplicates(last.reply.arr)
    /\ (Ran("ZCOUNT") /\ PreIsZset /\ ExplicitBounds) =>
          last.reply.int = Cardinality(WithinScoreRange(last.args[2], last.args[3]))

\* composite key (score, member), ascending
ScoreMemberBefore(ss, a, b) ==
    ss[a] < ss[b] \/ (ss[a] = ss[b] /\ StrLess(a, b))
IsWholeRange == last.args = <<LastKey, formatFloat(0), formatFloat(-1)>>

\* C2: ZRANGE key 0 -1 lists the members currently mapped to a score, each
\* once, sorted by (score ascending, member ascending).
C2_CanonicalOrder ==
    (Ran("ZRANGE") /\ IsWholeRange /\ last.reply.kind = "array") =>
        LET arr == last.reply.arr
        IN  /\ \A i, j \in 1 .. Len(arr) :
                  i < j => ScoreMemberBefore(PreSet, arr[i], arr[j])
            /\ NoDuplicates(arr)
            /\ SeqSet(arr) = DOMAIN PreSet
            /\ last.reply.int = Len(arr)

\* three members listed, two of them tied on score and one on another score
C2_Witness ==
    /\ Ran("ZRANGE") /\ IsWholeRange /\ Len(last.reply.arr) = 3
    /\ PreSet[last.reply.arr[1]] = PreSet[last.reply.arr[2]]
    /\ PreSet[last.reply.arr[2]] # PreSet[last.reply.arr[3]]

\* the members named by a ZADD and, for each, the score token of its last pair
ZaddMembers == {last.args[2 * i + 1] : i \in 1 .. (Len(last.args) - 1) \div 2}
LastPairOf(m) ==
    CHOOSE i \in 1 .. (Len(last.args) - 1) \div 2 :
        /\ last.args[2 * i + 1] = m
        /\ \A k \in 1 .. (Len(last.args) - 1) \div 2 : last.args[2 * k + 1] = m => k <= i
PostSet == PostDB[LastKey].ss

\* C3: ZADD replies the number of its members that were absent before the
\* call; every member of the call (new or not) then holds the score given for
\* it, and ZSCORE / ZRANGE WITHSCORES reply the score currently held.
C3_ZaddCountsNewMembers ==
    /\ (Ran("ZADD") /\ last.reply.kind = "int") =>
          /\ last.reply.int = Cardinality(ZaddMembers \ DOMAIN PreSet)
          /\ \A m \in ZaddMembers :
                /\ m \in DOMAIN PostSet
                /\ formatFloat(PostSet[m]) = last.args[2 * LastPairOf(m)]
          /\ \A m \in DOMAIN PreSet \ ZaddMembers :
                m \in DOMAIN PostSet /\ PostSet[m] = PreSet[m]
    /\ (Ran("ZSCORE") /\ PreIsZset /\ last.args[2] \in DOMAIN PreSet) =>
          last.reply = WriteString(formatFloat(PreSet[last.args[2]]))
    /\ (Ran("ZRANGE") /\ PreIsZset /\ Len(last.args) = 4) =>
          \A i \in 1 .. Len(last.reply.arr) :
              i % 2 = 0 =>
                  last.reply.arr[i] = formatFloat(PreSet[last.reply.arr[i - 1]])

\* a ZADD of one new member and one existing member whose score changes
C3_Witness ==
    /\ Ran("ZADD") /\ last.reply = WriteInt(1) /\ Cardinality(ZaddMembers) = 2
    /\ \E m \in ZaddMembers \cap DOMAIN PreSet : PostSet[m] # PreSet[m]

\* the reply of each verb for a missing key
EmptyReply(verb) ==
    IF verb \in {"ZCARD", "ZCOUNT", "ZREM"} THEN WriteInt(0)
    ELSE IF verb \in {"ZSCORE", "ZRANK", "ZREVRANK"} THEN WriteNil
    ELSE WriteBulk(0, <<>>)
ReadOrRemoveVerbs ==
    {"ZCARD", "ZCOUNT", "ZREM", "ZSCORE", "ZRANK", "ZREVRANK", "ZRANGE", "ZREVRANGE",
     "ZRANGEBYSCORE", "ZREVRANGEBYSCORE", "ZRANGEBYLEX"}

\* C4: on a missing key every read or removal command replies its own empty
\* result (0, nil or an empty array), never an error, and leaves the keyspace
\* unchanged.
C4_MissingKeyEmptyReply ==
    (last.entered /\ last.verb \in ReadOrRemoveVerbs /\ last.pre[LastKey].t = "none") =>
        /\ last.reply = EmptyReply(last.verb)
        /\ PostDB = last.pre

C4_Witness ==
    /\ Ran("ZREM") /\ last.pre[LastKey].t = "none"
    /\ last.reply = WriteInt(0) /\ PostDB[LastKey] = NoValue

\* some score token of the ZADD does not parse, or a member is missing
ZaddMalformed ==
    \/ (Len(last.args) - 1) % 2 # 0
    \/ \E i \in 1 .. (Len(last.args) - 1) \div 2 : last.args[2 * i] = S_x

\* C5: a command that ends in an error leaves the keyspace unchanged; ZADD,
\* ZREM and ZCARD on a key holding a string reply the wrong-type error; a ZADD
\* with an unparsable score token or an odd token count is an error and adds
\* none of its pairs.
C5_ErrorsLeaveNoMutation ==
    /\ (last.conn # 0 /\ last.reply.kind = "error") => PostDB = last.pre
    /\ (last.entered /\ last.verb \in {"ZADD", "ZREM", "ZCARD"}
            /\ last.pre[LastKey].t = "string") =>
          last.reply = WriteErrorString(ErrWrongType) /\ PostDB = last.pre
    /\ (last.verb = "ZADD" /\ Len(last.args) >= 3 /\ ZaddMalformed) =>
          last.reply.kind = "error" /\ PostDB = last.pre

\* a ZADD whose first pair is well-formed and new, rejected for a later token
C5_Witness ==
    /\ last.verb = "ZADD" /\ Len(last.args) = 5 /\ last.args[4] = S_x
    /\ last.args[2] # S_x /\ last.args[3] \notin DOMAIN PreSet
    /\ last.reply.kind = "error"

\* C6: every command rejected before the closure leaves the connection's
\* dirty flag set.
C6_RejectedSetsDirty ==
    (last.conn # 0 /\ ~last.entered) => dirty[last.conn]

\* C7: a command that enters the closure leaves the dirty flag as it was.
C7_WellFormedKeepsDirty ==
    (last.conn # 0 /\ last.entered) =>
        dirty = last.wasDirty

\* a wrong-type error from inside the closure on a clean connection
C7_Witness ==
    /\ last.entered /\ last.reply = WriteErrorString(ErrWrongType)
    /\ ~dirty[last.conn] /\ \E c \in Conns : dirty[c]


\* the members of the set found, in pure member-string order
PreSorted == SortStrings(DOMAIN PreSet)

\* C9: withLexRange with max = "-" or min = "+" is empty whatever the other
\* bound and both inclusivity flags, so ZRANGEBYLEX key + <any> and
\* ZRANGEBYLEX key <any> - reply an empty array on every set.
C9_LexSentinelsGiveEmpty ==
    (Ran("ZRANGEBYLEX") /\ PreIsZset) =>
        /\ (last.args[2] = S_plus \/ last.args[3] = S_minus) =>
              last.reply = WriteBulk(0, <<>>)
        /\ \A other \in LexBounds \cup {S_minus}, i1 \in BOOLEAN, i2 \in BOOLEAN :
              /\ withLexRange(PreSorted, S_plus, i1, other, i2) = <<>>
              /\ withLexRange(PreSorted, other, i1, S_minus, i2) = <<>>

\* ZRANGEBYLEX z + [a on a set holding "a", or ZRANGEBYLEX z [a - on a set
\* of three members
C9_Witness ==
    /\ Ran("ZRANGEBYLEX") /\ PreIsZset /\ last.reply = WriteBulk(0, <<>>)
    /\ \/ /\ last.args = <<S_z, S_plus, <<Byte.lbracket>> \o S_a>>
          /\ S_a \in DOMAIN PreSet
       \/ /\ last.args = <<S_z, <<Byte.lbracket>> \o S_a, S_minus>>
          /\ Cardinality(DOMAIN PreSet) = 3

\* a bracketed endpoint whose remainder is "+" or "-"
BracketedSentinels ==
    {<<b>> \o r : b \in {Byte.lbracket, Byte.lparen}, r \in {S_plus, S_minus}}
\* m against a bracketed endpoint read as a concrete bound
AtOrAfter(m, tok) ==
    IF tok[1] = Byte.lbracket THEN StrLeq(Tail1(tok), m) ELSE StrLess(Tail1(tok), m)
AtOrBefore(m, tok) ==
    IF tok[1] = Byte.lbracket THEN StrLeq(m, Tail1(tok)) ELSE StrLess(m, Tail1(tok))

\* C10: a bracketed endpoint "[-", "(-", "[+" or "(+" is a concrete bound on
\* the member string "-" / "+": with the other side unbounded, ZRANGEBYLEX
\* returns exactly the members on the right side of that bound.
C10_BracketedSentinelIsConcrete ==
    (Ran("ZRANGEBYLEX") /\ PreIsZset /\ Len(last.args) = 3) =>
        /\ (last.args[2] = S_minus /\ last.args[3] \in BracketedSentinels) =>
              SeqSet(last.reply.arr) = {m \in DOMAIN PreSet : AtOrBefore(m, last.args[3])}
        /\ (last.args[3] = S_plus /\ last.args[2] \in BracketedSentinels) =>
              SeqSet(last.reply.arr) = {m \in DOMAIN PreSet : AtOrAfter(m, last.args[2])}


\* the options after the two bounds of the last by-score / by-lex command
LastWithScores == \E i \in 4 .. Len(last.args) : ToLower(last.args[i]) = S_withscores
LastHasLimit == \E i \in 4 .. Len(last.args) : ToLower(last.args[i]) = S_limit
ScoresOption == IF LastWithScores THEN <<S_withscores>> ELSE <<>>
\* s read as groups of g entries, the groups in reverse order
ReverseGroups(s, g) ==
    [i \in 1 .. Len(s) |->
        s[(Len(s) \div g - 1 - (i - 1) \div g) * g + ((i - 1) % g) + 1]]
GroupSize == IF LastWithScores THEN 2 ELSE 1

\* C11: ZREVRANGEBYSCORE key hi lo (no LIMIT) replies the reverse of what
\* ZRANGEBYSCORE key lo hi replies on the same set, and ZREVRANGE key 0 -1 the
\* reverse of ZRANGE key 0 -1; with WITHSCORES each score stays behind its
\* member.
C11_ReverseIsExactReverse ==
    /\ (Ran("ZREVRANGEBYSCORE") /\ ~LastHasLimit) =>
          LET asc == makeCmdZrangebyscore(FALSE, last.pre,
                        <<LastKey, last.args[3], last.args[2]>> \o ScoresOption).reply
          IN  /\ last.reply.kind = asc.kind /\ last.reply.int = asc.int
              /\ last.reply.arr = ReverseGroups(asc.arr, GroupSize)
    /\ (Ran("ZREVRANGE") /\ last.args[2] = formatFloat(0)
            /\ last.args[3] = formatFloat(-1)) =>
          LET asc == makeCmdZrange(FALSE, last.pre, last.args).reply
              g == IF Len(last.args) = 4 THEN 2 ELSE 1
          IN  /\ last.reply.kind = asc.kind /\ last.reply.int = asc.int
              /\ last.reply.arr = ReverseGroups(asc.arr, g)

\* ZREVRANGEBYSCORE z 1 -1 WITHSCORES listing at least two members
C11_Witness ==
    /\ Ran("ZREVRANGEBYSCORE")
    /\ last.args = <<S_z, formatFloat(MaxScore), formatFloat(-1), S_withscores>>
    /\ Len(last.reply.arr) >= 4
    /\ last.reply.arr[2] # last.reply.arr[4]

\* the offset and the count of the LIMIT option of the last command
LimitPos == CHOOSE i \in 4 .. Len(last.args) : ToLower(last.args[i]) = S_limit
LimitOffset == IntLiteralValue(last.args[LimitPos + 1])
LimitCount == IntLiteralValue(last.args[LimitPos + 2])
\* what the last command replies on the same set without its LIMIT option
UnlimitedReply ==
    LET args == <<LastKey, last.args[2], last.args[3]>>
    IN  IF last.verb = "ZRANGEBYLEX" THEN cmdZrangebylex(last.pre, args).reply
        ELSE makeCmdZrangebyscore(last.verb = "ZREVRANGEBYSCORE", last.pre,
                                  args \o ScoresOption).reply
\* how many elements LIMIT offset count keeps of n filtered elements
LimitKeeps(n, offset, count) ==
    IF offset < 0 \/ offset >= n THEN 0
    ELSE IF count < 0 \/ count > n - offset THEN n - offset
    ELSE count

\* C12: LIMIT offset count works on the sequence left by the range filter (and
\* the reversal): nothing for a negative offset or one at or past its length,
\* otherwise the elements from position offset on, at most count of them when
\* count >= 0 and all of them when count < 0.
C12_LimitAfterFilter ==
    (/\ last.verb \in {"ZRANGEBYSCORE", "ZREVRANGEBYSCORE", "ZRANGEBYLEX"}
     /\ last.entered /\ last.reply.kind = "array" /\ LastHasLimit) =>
        LET all == UnlimitedReply.arr
            n == Len(all) \div GroupSize
            kept == LimitKeeps(n, LimitOffset, LimitCount)
        IN  /\ last.reply.arr = SubSeq(all, LimitOffset * GroupSize + 1,
                                       (LimitOffset + kept) * GroupSize)
            /\ last.reply.int = kept * GroupSize

\* ZREVRANGEBYSCORE z 1 -1 LIMIT 1 1 on a set of three members: the middle one
C12_Witness ==
    /\ Ran("ZREVRANGEBYSCORE")
    /\ last.args = <<S_z, formatFloat(MaxScore), formatFloat(-1),
                     S_limit, formatFloat(1), formatFloat(1)>>
    /\ PreIsZset /\ Cardinality(DOMAIN PreSet) = 3
    /\ Len(last.reply.arr) = 1
    /\ last.reply.arr[1] = UnlimitedReply.arr[2]

\* a score bound that may be absent: the empty string constrains nothing
MinAdmits(score, tok) == tok = S_empty \/ AboveMin(score, tok)
MaxAdmits(score, tok) == tok = S_empty \/ BelowMax(score, tok)
HasAbsentBound ==
    Len(last.args) = 3 /\ (last.args[2] = S_empty \/ last.args[3] = S_empty)
\* the members no bound of the range [mn, mx] rules out
AdmittedBy(mn, mx) ==
    {m \in DOMAIN PreSet : MinAdmits(PreSet[m], mn) /\ MaxAdmits(PreSet[m], mx)}

\* C13: an empty-string bound of ZRANGEBYSCORE, ZREVRANGEBYSCORE or ZCOUNT is
\* no constraint on its side: no member is left out for being too low under
\* an empty min, nor for being too high under an empty max, whatever its score.
C13_AbsentBoundExcludesNothing ==
    /\ (Ran("ZRANGEBYSCORE") /\ PreIsZset /\ HasAbsentBound) =>
          AdmittedBy(last.args[2], last.args[3]) \subseteq SeqSet(last.reply.arr)
    /\ (Ran("ZREVRANGEBYSCORE") /\ PreIsZset /\ HasAbsentBound) =>
          AdmittedBy(last.args[3], last.args[2]) \subseteq SeqSet(last.reply.arr)
    /\ (Ran("ZCOUNT") /\ PreIsZset /\ HasAbsentBound) =>
          last.reply.int >= Cardinality(AdmittedBy(last.args[2], last.args[3]))

\* C14: in every reachable state a key tagged sorted set holds at least one
\* member; such a key comes into being by a successful ZADD on a key that did
\* not exist, and a ZREM that removes its last member removes the key, after
\* which ZCARD replies 0, ZSCORE replies nil and ZRANGE replies the empty list.
C14_NoEmptySortedSet ==
    /\ \A i \in DBIndexes, k \in Keys :
          dbs[i][k].t = "zset" => DOMAIN dbs[i][k].ss # {}
    /\ (Ran("ZADD") /\ last.pre[LastKey].t = "none" /\ last.reply.kind = "int") =>
          PostDB[LastKey].t = "zset" /\ DOMAIN PostSet = ZaddMembers
    /\ (last.entered /\ last.verb # "ZADD") =>
          \A k \in Keys : last.pre[k].t = "none" => PostDB[k] = NoValue
    /\ (Ran("ZREM") /\ PreIsZset
            /\ DOMAIN PreSet \subseteq SeqSet(Tail1(last.args))) =>
          /\ PostDB[LastKey] = NoValue
          /\ cmdZcard(PostDB, <<LastKey>>).reply = WriteZero
          /\ \A m \in Members : cmdZscore(PostDB, <<LastKey, m>>).reply = WriteNil
          /\ makeCmdZrange(FALSE, PostDB,
                <<LastKey, formatFloat(0), formatFloat(-1)>>).reply = WriteBulk(0, <<>>)

\* one ZREM takes both members of a two-member set, and the key is gone
C14_Witness ==
    /\ Ran("ZREM") /\ PreIsZset /\ Cardinality(DOMAIN PreSet) = 2
    /\ Len(last.args) = 3 /\ last.reply = WriteInt(2)
    /\ ~exists(PostDB, LastKey)

\* a lexicographic endpoint with a concrete bound that is no sentinel string
ConcreteLexToks ==
    {<<b>> \o r : b \in {Byte.lbracket, Byte.lparen}, r \in LexBounds \ {S_plus, S_minus}}
\* the members of the set found that lie within the lexicographic range
WithinLexRange(mn, mx) ==
    {m \in DOMAIN PreSet : /\ mn = S_minus \/ AtOrAfter(m, mn)
                           /\ mx = S_plus \/ AtOrBefore(m, mx)}

\* C16: with concrete bounds ZRANGEBYLEX replies exactly the members between
\* them per the inclusivity flags, in member-string order whatever the scores
\* (so nothing when every member is below the min bound); "-" as min and "+"
\* as max remove nothing.
C16_LexRangeExact ==
    (/\ Ran("ZRANGEBYLEX") /\ PreIsZset /\ Len(last.args) = 3
     /\ last.args[2] \in ConcreteLexToks \cup {S_minus}
     /\ last.args[3] \in ConcreteLexToks \cup {S_plus}) =>
        /\ SeqSet(last.reply.arr) = WithinLexRange(last.args[2], last.args[3])
        /\ \A i, j \in 1 .. Len(last.reply.arr) :
              i < j => StrLess(last.reply.arr[i], last.reply.arr[j])

\* 0-based position of member m in the order (score, member) of the set found
RankOf(m) == Cardinality({x \in DOMAIN PreSet : ScoreMemberBefore(PreSet, x, m)})
\* the window of ranks an index pair selects in a list of n members: a
\* negative index counts from the end, the result is clamped to the list
WindowLo(n, start) == IF start >= 0 THEN start ELSE IF n + start < 0 THEN 0 ELSE n + start
WindowHi(n, end) == IF end < 0 THEN n + end ELSE IF end > n - 1 THEN n - 1 ELSE end
WindowSize(n, start, end) ==
    IF WindowLo(n, start) > WindowHi(n, end) \/ WindowLo(n, start) >= n THEN 0
    ELSE WindowHi(n, end) - WindowLo(n, start) + 1

\* C17: ZRANGE key start stop replies the members at the ranks the index pair
\* selects after normalisation (negative counts from the end, clamped, empty
\* when start is past stop or past the last member), in rank order; with
\* WITHSCORES twice as many entries, each member directly followed by its own
\* score; the slice bounds always satisfy 0 <= rs <= re <= length.
C17_ZrangeRankWindow ==
    (Ran("ZRANGE") /\ PreIsZset) =>
        LET start == IntLiteralValue(last.args[2])
            end == IntLiteralValue(last.args[3])
            g == IF Len(last.args) = 4 THEN 2 ELSE 1
            n == Cardinality(DOMAIN PreSet)
            cnt == WindowSize(n, start, end)
            r == redisRange(n, start, end)
            arr == last.reply.arr
        IN  /\ last.reply.kind = "array"
            /\ last.reply.int = cnt * g /\ Len(arr) = cnt * g
            /\ \A i \in 1 .. cnt :
                  /\ arr[(i - 1) * g + 1] \in DOMAIN PreSet
                  /\ RankOf(arr[(i - 1) * g + 1]) = WindowLo(n, start) + i - 1
                  /\ g = 2 => arr[2 * i] = formatFloat(PreSet[arr[2 * i - 1]])
            /\ 0 <= r.rs /\ r.rs <= r.re /\ r.re <= n

\* ZRANGE z 0 -1 WITHSCORES on three members with three different scores
C17_Witness ==
    /\ Ran("ZRANGE") /\ PreIsZset
    /\ last.args = <<S_z, formatFloat(0), formatFloat(-1), S_withscores>>
    /\ Len(last.reply.arr) = 6
    /\ Cardinality({PreSet[m] : m \in DOMAIN PreSet}) = 3

\* what ZRANGE / ZREVRANGE key 0 -1 reply on the set found
WholeRange(reverse) ==
    makeCmdZrange(reverse, last.pre,
                  <<LastKey, formatFloat(0), formatFloat(-1)>>).reply.arr

\* C18: ZRANK replies the 0-based position of the member in the order
\* (score, member), the index at which ZRANGE key 0 -1 lists it; ZREVRANK its
\* position in the reversed order, so the two add up to n - 1; for a member
\* absent from an existing set both reply nil.
C18_RankIsCanonicalPosition ==
    /\ (Ran("ZRANK") /\ PreIsZset) =>
          IF last.args[2] \in DOMAIN PreSet
          THEN /\ last.reply = WriteInt(RankOf(last.args[2]))
               /\ WholeRange(FALSE)[last.reply.int + 1] = last.args[2]
               /\ last.reply.int + makeCmdZrank(TRUE, last.pre, last.args).reply.int
                     = Cardinality(DOMAIN PreSet) - 1
          ELSE last.reply = WriteNil
    /\ (Ran("ZREVRANK") /\ PreIsZset) =>
          IF last.args[2] \in DOMAIN PreSet
          THEN /\ last.reply = WriteInt(Cardinality(DOMAIN PreSet) - 1 - RankOf(last.args[2]))
               /\ WholeRange(TRUE)[last.reply.int + 1] = last.args[2]
               /\ last.reply.int + makeCmdZrank(FALSE, last.pre, last.args).reply.int
                     = Cardinality(DOMAIN PreSet) - 1
          ELSE last.reply = WriteNil

\* ZREVRANK of the first member in canonical order of a three-member set
C18_Witness ==
    /\ Ran("ZREVRANK") /\ PreIsZset /\ Cardinality(DOMAIN PreSet) = 3
    /\ last.reply = WriteInt(2)
    /\ WholeRange(FALSE)[1] = last.args[2]

\* C19: ZCOUNT key min max replies the number of members ZRANGEBYSCORE key
\* min max (no LIMIT) returns on the same keyspace, and neither command
\* changes the keyspace.
C19_ZcountMatchesZrangebyscore ==
    /\ Ran("ZCOUNT") =>
          LET r == makeCmdZrangebyscore(FALSE, last.pre, last.args)
          IN  /\ last.reply.kind = "int" <=> r.reply.kind = "array"
              /\ last.reply.kind = "int" => last.reply.int = Len(r.reply.arr)
              /\ PostDB = last.pre /\ r.db = last.pre
    /\ (Ran("ZRANGEBYSCORE") /\ Len(last.args) = 3) =>
          LET r == cmdZcount(last.pre, last.args)
          IN  /\ last.reply.kind = "array" <=> r.reply.kind = "int"
              /\ last.reply.kind = "array" => r.reply.int = Len(last.reply.arr)
              /\ PostDB = last.pre /\ r.db = last.pre

\* ZCOUNT counts two of the three members of a set
C19_Witness ==
    /\ Ran("ZCOUNT") /\ PreIsZset /\ Cardinality(DOMAIN PreSet) = 3
    /\ last.reply = WriteInt(2)
    /\ Len(makeCmdZrangebyscore(FALSE, last.pre, last.args).reply.arr) = 2

----------------------------------------------------------------------------
\* Concurrent specification: one worker per connection.  A handler parses its
\* arguments, then withTx takes the server lock, runs the closure and releases
\* the lock.  The closure is a sequence of steps: every store access (db.zadd,
\* db.zrem, db.zelements, ...) is one step, so that closures of different
\* connections could interleave if the lock did not exclude it.

TxZaddArgs ==
    {<<S_z>> \o PairList(ms, 0) : ms \in MemberSeqs(2)}
    \cup {<<S_z, formatFloat(0), S_a>>, <<S_s, formatFloat(1), S_a>>}
    \cup {<<S_z>> \o PairList(<<S_a, S_a, S_ab>>, 0)}
TxZremArgs == {<<S_z, S_a, S_ab>>, <<S_z, S_minus>>}
TxReadCommands ==
    {[verb |-> "ZCARD", args |-> <<S_z>>],
     [verb |-> "ZCOUNT", args |-> <<S_z, formatFloat(0), formatFloat(1)>>],
     [verb |-> "ZRANGE", args |-> <<S_z, formatFloat(0), formatFloat(-1)>>],
     [verb |-> "ZRANGEBYSCORE", args |-> <<S_z, formatFloat(0), formatFloat(1)>>]}
TxCommands ==
    {[verb |-> "ZADD", args |-> a] : a \in TxZaddArgs}
    \cup {[verb |-> "ZREM", args |-> a] : a \in TxZremArgs}
    \cup TxReadCommands

NoSnapshot == <<>>
Job(verb, args, elems, rem) ==
    [verb |-> verb, args |-> args, elems |-> elems, rem |-> rem, count |-> 0,
     checked |-> FALSE, failed |-> FALSE, seen |-> NoSnapshot]

\* the handler of connection c has validated its arguments and calls withTx
TxCall(c) ==
    /\ pc[c] = "idle"
    /\ \E cmd \in TxCommands :
          job' = [job EXCEPT ![c] =
                    Job(cmd.verb, cmd.args,
                        IF cmd.verb = "ZADD"
                        THEN zaddElems(Tail1(cmd.args), <<>>).elems ELSE <<>>,
                        IF cmd.verb = "ZREM" THEN Tail1(cmd.args) ELSE <<>>)]
    /\ pc' = [pc EXCEPT ![c] = "waiting"]
    /\ UNCHANGED <<dbs, selectedDB, dirty, last, lock, obs>>

\* variant: m.Lock() does not wait for the holder
mLock_noWait(c) == TRUE

\* m.Lock() of withTx can be taken
mLock(c) == lock = 0

\* withTx: the lock is taken and the closure is entered
TxEnter(c) ==
    /\ pc[c] = "waiting"
    /\ mLock(c)
    /\ lock' = c
    /\ pc' = [pc EXCEPT ![c] = "closure"]
    /\ UNCHANGED <<dbs, selectedDB, dirty, last, job, obs>>

\* the closure of ZADD / ZREM checks existence and type
TxCheck(c) ==
    /\ pc[c] = "closure" /\ job[c].verb \in {"ZADD", "ZREM"} /\ ~job[c].checked
    /\ job' = [job EXCEPT
                 ![c].checked = TRUE,
                 ![c].failed =
                     \/ exists(DB(c), job[c].args[1]) /\ t(DB(c), job[c].args[1]) # "zset"
                     \/ job[c].verb = "ZREM" /\ ~exists(DB(c), job[c].args[1])]
    /\ UNCHANGED <<dbs, selectedDB, dirty, last, lock, pc, obs>>

\* one iteration of `for member, score := range elems` (map order: any member)
TxZaddStep(c) ==
    /\ pc[c] = "closure" /\ job[c].verb = "ZADD"
    /\ job[c].checked /\ ~job[c].failed
    /\ \E member \in DOMAIN job[c].elems :
          LET r == zadd(DB(c), job[c].args[1], job[c].elems[member], member)
          IN  /\ dbs' = [dbs EXCEPT ![selectedDB[c]] = r.db]
              /\ job' = [job EXCEPT
                           ![c].elems = MapDelete(job[c].elems, member),
                           ![c].count = IF r.isNew THEN @ + 1 ELSE @]
    /\ UNCHANGED <<selectedDB, dirty, last, lock, pc, obs>>

\* one iteration of `for _, member := range members` of ZREM
TxZremStep(c) ==
    /\ pc[c] = "closure" /\ job[c].verb = "ZREM"
    /\ job[c].checked /\ ~job[c].failed /\ Len(job[c].rem) > 0
    /\ LET r == zrem(DB(c), job[c].args[1], job[c].rem[1])
       IN  /\ dbs' = [dbs EXCEPT ![selectedDB[c]] = r.db]
           /\ job' = [job EXCEPT
                        ![c].rem = Tail1(job[c].rem),
                        ![c].count = IF r.existed THEN @ + 1 ELSE @]
    /\ UNCHANGED <<selectedDB, dirty, last, lock, pc, obs>>

\* the closure of a read command takes its snapshot of the keyspace
\* (db.zcard / db.zmembers / db.zelements)
TxRead(c) ==
    /\ pc[c] = "closure" /\ job[c].verb \notin {"ZADD", "ZREM"}
    /\ job[c].seen = NoSnapshot
    /\ job' = [job EXCEPT ![c].seen = DB(c)]
    /\ UNCHANGED <<dbs, selectedDB, dirty, last, lock, pc, obs>>

TxBodyDone(c) ==
    IF job[c].verb = "ZADD"
    THEN job[c].checked /\ (job[c].failed \/ DOMAIN job[c].elems = {})
    ELSE IF job[c].verb = "ZREM"
    THEN job[c].checked /\ (job[c].failed \/ Len(job[c].rem) = 0)
    ELSE job[c].seen # NoSnapshot

\* the closure writes its reply and returns; withTx releases the lock
TxReturn(c) ==
    /\ pc[c] = "closure" /\ TxBodyDone(c)
    /\ lock' = 0
    /\ pc' = [pc EXCEPT ![c] = "idle"]
    /\ job' = [job EXCEPT ![c] = <<>>]
    /\ obs' = dbs
    /\ UNCHANGED <<dbs, selectedDB, dirty, last>>

NextTx ==
    \E c \in Conns :
        \/ TxCall(c) \/ TxEnter(c) \/ TxCheck(c) \/ TxZaddStep(c)
        \/ TxZremStep(c) \/ TxRead(c) \/ TxReturn(c)

SpecTx == Init /\ [][NextTx]_vars

InClosure == {c \in Conns : pc[c] = "closure"}
\* a ZADD or ZREM that has applied some of its members and not yet all
MidMutation(c) ==
    /\ pc[c] = "closure" /\ job[c].verb \in {"ZADD", "ZREM"}
    /\ job[c].checked /\ ~job[c].failed
    /\ IF job[c].verb = "ZADD"
       THEN DOMAIN job[c].elems # {}
            /\ DOMAIN job[c].elems # DOMAIN zaddElems(Tail1(job[c].args), <<>>).elems
       ELSE Len(job[c].rem) > 0 /\ Len(job[c].rem) < Len(job[c].args) - 1

\* C8: command bodies never interleave: at most one connection is inside a
\* closure; no closure runs while a ZADD / ZREM of another connection is
\* partly applied; and the snapshot a read closure works on is the keyspace
\* as a whole command left it.
C8_ClosuresDoNotInterleave ==
    /\ Cardinality(InClosure) <= 1
    /\ \A c \in Conns : MidMutation(c) => InClosure = {c}
    /\ \A c \in Conns :
          (pc[c] = "closure" /\ job[c] # <<>> /\ job[c].seen # NoSnapshot) =>
              job[c].seen = obs[selectedDB[c]]

\* a read closure has taken its snapshot of a set written by a two-member
\* ZADD while another connection's two-member ZADD waits for the lock
C8_Witness ==
    \E c, d \in Conns :
        /\ c # d
        /\ pc[c] = "closure" /\ job[c].verb = "ZRANGEBYSCORE"
        /\ job[c].seen # NoSnapshot
        /\ Cardinality(DOMAIN job[c].seen[S_z].ss) = 2
        /\ pc[d] = "waiting" /\ job[d].verb = "ZADD" /\ Len(job[d].args) = 5

\* the score/member pairs of a ZADD argument vector
PairCount(args) == (Len(args) - 1) \div 2
PairMembers(args) == {args[2 * i + 1] : i \in 1 .. PairCount(args)}
LastPairIn(args, m) ==
    CHOOSE i \in 1 .. PairCount(args) :
        /\ args[2 * i + 1] = m
        /\ \A k \in 1 .. PairCount(args) : args[2 * k + 1] = m => k <= i
\* the ZADD closure of connection c has applied its whole batch
ZaddBodyDone(c) ==
    /\ pc[c] = "closure" /\ job[c].verb = "ZADD"
    /\ job[c].checked /\ ~job[c].failed /\ DOMAIN job[c].elems = {}

\* C15: when one ZADD names a member in several pairs the outcome is the same
\* whatever order the batch is applied in: the member ends with the score of
\* its last pair in argument order and adds at most 1 to the reply (1 if it
\* was absent before the call, 0 otherwise).
C15_DuplicateLastPairWins ==
    \A c \in Conns :
        ZaddBodyDone(c) =>
            LET args == job[c].args
                before == obs[selectedDB[c]][args[1]].ss
                after == DB(c)[args[1]].ss
            IN  /\ DOMAIN after = DOMAIN before \cup PairMembers(args)
                /\ \A m \in PairMembers(args) :
                      formatFloat(after[m]) = args[2 * LastPairIn(args, m)]
                /\ \A m \in DOMAIN before \ PairMembers(args) : after[m] = before[m]
                /\ job[c].count = Cardinality(PairMembers(args) \ DOMAIN before)

\* ZADD z 1 a 0 a 1 ab applied to a set holding a with score 1 and no ab
C15_Witness ==
    \E c \in Conns :
        /\ ZaddBodyDone(c)
        /\ job[c].args = <<S_z>> \o PairList(<<S_a, S_a, S_ab>>, 0)
        /\ S_a \in DOMAIN obs[selectedDB[c]][S_z].ss
        /\ obs[selectedDB[c]][S_z].ss[S_a] = 1
        /\ DB(c)[S_z].ss[S_a] = 0
        /\ job[c].count = 1

====
